---- MODULE Spec2Model ----
(***************************************************************************)
(* Break timer (Vue single-file components).  Three versions of the        *)
(* component are in the repository:                                        *)
(*   "autostop" : src/src/App.vue            start on click, stops at 0    *)
(*   "precise"  : src/unnamed/part_000:1-685   pending selection, exact    *)
(*                end time, shortcuts, overdue banner                      *)
(*   "pending"  : src/unnamed/part_000:687-1122 pending selection, minutes *)
(*                only, overdue banner                                     *)
(* Time is in milliseconds since 00:00:00Z of the day originDay, counted   *)
(* in days from 2024-03-09 (the integers at hand do not reach the epoch,   *)
(* nor from March to November); the runtime's local zone is localZone.    *)
(* A handler reads the clock once: the few Date.now() calls of one         *)
(* handler see the same instant.                                           *)
(***************************************************************************)
EXTENDS Integers, FiniteSets, Sequences, TLC

VARIABLES
    variant,            \* which component is mounted
    runtimeZones,       \* the zone identifiers Intl.DateTimeFormat accepts
    originDay,          \* the calendar day of instant 0, in days since 2024-03-09
    midnightHour,       \* the hour the runtime renders for 00:xx under hour12: false
    localZone,          \* the runtime's local time zone, the one Date's local methods use
    mounted,            \* FALSE once onBeforeUnmount has run
    now,                \* the wall clock, Date.now()
    customMinutes,      \* ref customMinutes (v-model of the number input)
    preciseEndLocal,    \* ref preciseEndLocal (v-model of the datetime-local input)
    preciseEndIsFuture, \* cached value of the computed preciseEndIsFuture
    pendingMinutes,     \* ref pendingMinutes
    pendingExactEnd,    \* ref pendingExactEnd
    running,            \* ref running
    startTime,          \* ref startTime
    endTime,            \* ref endTime
    remainingMs,        \* ref remainingMs
    tickHandle,         \* let tickHandle
    intervals,          \* the window's live setInterval registrations
    lastOp              \* history: the handler that ran last, its argument, and
                        \* what it found (a live ticker, a pending selection)

vars == <<variant, runtimeZones, originDay, midnightHour, localZone, mounted, now, customMinutes, preciseEndLocal, preciseEndIsFuture,
          pendingMinutes, pendingExactEnd, running, startTime, endTime,
          remainingMs, tickHandle, intervals, lastOp>>

----------------------------------------------------------------------------
(* Program constants *)

NULL == -1

options == {5, 10, 15, 75}

MsPerMinute == 60000

TickMs == 250

MsPerSecond == 1000

MsPerHour == 60 * MsPerMinute

MsPerDay == 24 * MsPerHour

Variants == {"autostop", "precise", "pending"}

(* Model bounds *)

\* whole minutes the clock may advance past StartNow
MaxElapsedMin == 2

\* single milliseconds the clock may advance past a whole minute
MaxFine == 1

\* calendar days of instants at which the end-of-day shortcut is evaluated
TzDays == 6

\* the instant of mounting: 06:28:00 on the origin day
StartNow == 6 * MsPerHour + 28 * MsPerMinute

\* the latest instant the model's clock reaches
MaxNow == StartNow + MaxElapsedMin * MsPerMinute + MaxFine

Max(a, b) == IF a >= b THEN a ELSE b

FloorDiv(a, b) == a \div b

----------------------------------------------------------------------------
(* The zone database and the runtime's local zone *)

\* America/New_York in 2024 as the runtime's zone database gives it: UTC-5,
\* and UTC-4 from the spring-forward instant, 2024-03-10T07:00Z, to the
\* fall-back instant, 2024-11-03T06:00Z.  Each is given by its day, in days
\* since 2024-03-09, and the milliseconds into that day.
SpringForwardDay == 1

SpringForwardMsOfDay == 7 * MsPerHour

FallBackDay == 239

FallBackMsOfDay == 6 * MsPerHour

\* the days on which a time line may begin: 2024-03-09 and 2024-11-02
OriginDays == {0, 238}

\* instant ts is at or after `ms` milliseconds into day `day`
AtOrAfter(ts, day, ms) ==
    LET d == originDay + FloorDiv(ts, MsPerDay)
    IN  d > day \/ (d = day /\ ts % MsPerDay >= ms)

NYOffsetMs(ts) ==
    IF /\ AtOrAfter(ts, SpringForwardDay, SpringForwardMsOfDay)
       /\ ~AtOrAfter(ts, FallBackDay, FallBackMsOfDay)
    THEN -(4 * MsPerHour)
    ELSE -(5 * MsPerHour)

\* the zones the runtime's local clock may be set to
LocalZones == {"UTC", "America/New_York"}

\* the local zone's offset from UTC at instant ts
LocalTZA(ts) == IF localZone = "America/New_York" THEN NYOffsetMs(ts) ELSE 0

\* LocalTime(t) of ECMAScript: the local wall clock at instant ts
LocalTime(ts) == ts + LocalTZA(ts)

\* UTC(t) of ECMAScript: the instant at which the local wall clock reads tl.
\* A reading that occurs twice (the hour repeated at fall-back) is the
\* earlier instant; a reading that is skipped (the hour lost at
\* spring-forward) is taken with the offset in force before the transition.
UTC(tl) ==
    IF localZone = "America/New_York"
    THEN LET a == tl + 4 * MsPerHour
             b == tl + 5 * MsPerHour
         IN  IF NYOffsetMs(a) = -(4 * MsPerHour) THEN a ELSE b
    ELSE tl

----------------------------------------------------------------------------
(* Input values *)

\* What the number input can hold: nothing, text that is no number, or a
\* decimal num/den.
Num(n, d) == [kind |-> "num", num |-> n, den |-> d]

EmptyInput == [kind |-> "empty", num |-> 0, den |-> 1]

TextInput == [kind |-> "text", num |-> 0, den |-> 1]

CustomInputs == {EmptyInput, TextInput, Num(0, 1), Num(-5, 1), Num(1, 2), Num(1, 1), Num(5, 2)}

\* Number(customMinutes.value): '' is 0, text is NaN
ToNumber(c) ==
    CASE c.kind = "empty" -> [finite |-> TRUE, num |-> 0, den |-> 1]
      [] c.kind = "text"  -> [finite |-> FALSE, num |-> 0, den |-> 1]
      [] OTHER            -> [finite |-> TRUE, num |-> c.num, den |-> c.den]

\* parsedCustomMinutes without the n <= 0 test
parsedCustomMinutes_NoSignCheck(c) ==
    LET n == ToNumber(c)
    IN  IF ~n.finite THEN NULL ELSE FloorDiv(n.num, n.den)

parsedCustomMinutes(c) ==
    LET n == ToNumber(c)
    IN  IF ~n.finite \/ n.num <= 0 THEN NULL ELSE FloorDiv(n.num, n.den)

\* JavaScript truthiness of a number | null
Truthy(x) == x # NULL /\ x # 0

\* What the datetime-local input can hold: '', text that is no date, or
\* "YYYY-MM-DDTHH:mm", kept as the count of minutes of local wall clock
\* since 00:00 of the origin day.
LocalValue(m) == [kind |-> "local", min |-> m]

EmptyLocal == [kind |-> "empty", min |-> 0]

TextLocal == [kind |-> "text", min |-> 0]

\* minutes typed by the user, relative to the minute of StartNow
TypedOffsets == {-1, 2}

PreciseInputs ==
    {EmptyLocal, TextLocal} \cup {LocalValue(FloorDiv(StartNow, MsPerMinute) + k) : k \in TypedOffsets}

parsedPreciseEnd(p) ==
    IF p.kind = "empty" THEN NULL
    ELSE IF p.kind = "text" THEN NULL
    ELSE UTC(p.min * MsPerMinute)

evalPreciseEndIsFuture(p, t) ==
    parsedPreciseEnd(p) # NULL /\ parsedPreciseEnd(p) > t

toDatetimeLocalValue(d) == LocalValue(FloorDiv(LocalTime(d), MsPerMinute))

----------------------------------------------------------------------------
(* The component's state as one record, and its functions as operators     *)
(* from state (and clock reading t) to state.                              *)

S == [customMinutes |-> customMinutes, preciseEndLocal |-> preciseEndLocal,
      preciseEndIsFuture |-> preciseEndIsFuture,
      pendingMinutes |-> pendingMinutes, pendingExactEnd |-> pendingExactEnd,
      running |-> running, startTime |-> startTime, endTime |-> endTime,
      remainingMs |-> remainingMs, tickHandle |-> tickHandle, intervals |-> intervals]

InitialState ==
    [customMinutes |-> EmptyInput, preciseEndLocal |-> EmptyLocal,
     preciseEndIsFuture |-> FALSE,
     pendingMinutes |-> NULL, pendingExactEnd |-> NULL,
     running |-> FALSE, startTime |-> NULL, endTime |-> NULL,
     remainingMs |-> 0, tickHandle |-> NULL, intervals |-> {}]

\* window.setInterval returns a handle no live registration uses
NewHandle(ivs) ==
    CHOOSE n \in 1..(Cardinality(ivs) + 1) :
        /\ \A iv \in ivs : iv.id # n
        /\ \A m \in 1..(n - 1) : \E iv \in ivs : iv.id = m

\* window.clearInterval(h)
clearInterval(ivs, h) == {iv \in ivs : iv.id # h}

\* tickHandle = window.setInterval(update, 250), update closing over `end`
setInterval(s, end, t) ==
    LET h == NewHandle(s.intervals)
    IN  [s EXCEPT !.intervals = @ \cup {[id |-> h, end |-> end, since |-> t]},
                  !.tickHandle = h]

\* clearTimer that forgets the handle and leaves the interval registered
clearTimer_HandleOnly(s) == [s EXCEPT !.tickHandle = NULL]

clearTimer(s) ==
    IF s.tickHandle # NULL
    THEN [s EXCEPT !.intervals = clearInterval(@, s.tickHandle), !.tickHandle = NULL]
    ELSE s

\* cancel that leaves the interval registered
cancel_NoClear(s) ==
    [s EXCEPT !.running = FALSE, !.startTime = NULL, !.endTime = NULL, !.remainingMs = 0]

\* cancel that also drops the pending selection
cancel_ClearsPending(s) ==
    [clearTimer(s) EXCEPT !.running = FALSE, !.startTime = NULL, !.endTime = NULL,
                          !.remainingMs = 0, !.pendingMinutes = NULL]

cancel(s) ==
    [clearTimer(s) EXCEPT !.running = FALSE, !.startTime = NULL,
                          !.endTime = NULL, !.remainingMs = 0]

\* update that stops only once the end has passed (diff < 0)
updateAutoStop_Strict(s, end, t) ==
    LET diff == end - t
        s1 == [s EXCEPT !.remainingMs = Max(0, diff)]
    IN  IF diff < 0 THEN [clearTimer(s1) EXCEPT !.running = FALSE] ELSE s1

\* update that stores the difference unclamped
updateAutoStop_NoClamp(s, end, t) ==
    LET diff == end - t
        s1 == [s EXCEPT !.remainingMs = diff]
    IN  IF diff <= 0 THEN [clearTimer(s1) EXCEPT !.running = FALSE] ELSE s1

\* update that clamps but never stops the run
updateAutoStop_NeverStops(s, end, t) == [s EXCEPT !.remainingMs = Max(0, end - t)]

\* update() of src/src/App.vue: clamps at 0 and stops the run
updateAutoStop(s, end, t) ==
    LET diff == end - t
        s1 == [s EXCEPT !.remainingMs = Max(0, diff)]
    IN  IF diff <= 0 THEN [clearTimer(s1) EXCEPT !.running = FALSE] ELSE s1

\* overdue update that clamps at 0
updateOverdue_Clamped(s, end, t) == [s EXCEPT !.remainingMs = Max(0, end - t)]

\* overdue update that stops the run at the end, as App.vue does
updateOverdue_Stops(s, end, t) ==
    LET s1 == [s EXCEPT !.remainingMs = end - t]
    IN  IF end - t <= 0 THEN [clearTimer(s1) EXCEPT !.running = FALSE] ELSE s1

\* update() of the overdue-banner components: no clamp, never stops
updateOverdue(s, end, t) == [s EXCEPT !.remainingMs = end - t]

update(v, s, end, t) ==
    IF v = "autostop" THEN updateAutoStop(s, end, t) ELSE updateOverdue(s, end, t)

\* start that does not clear the previous interval
start_NoClear(v, s, minutes, t) ==
    LET end == t + minutes * MsPerMinute
        s1 == [s EXCEPT !.startTime = t, !.endTime = end, !.running = TRUE]
    IN  setInterval(update(v, s1, end, t), end, t)

\* start that takes its argument for seconds
start_WrongUnit(v, s, minutes, t) ==
    LET s0 == clearTimer(s)
        end == t + minutes * MsPerSecond
        s1 == [s0 EXCEPT !.startTime = t, !.endTime = end, !.running = TRUE]
    IN  setInterval(update(v, s1, end, t), end, t)

start(v, s, minutes, t) ==
    LET s0 == clearTimer(s)
        end == t + minutes * MsPerMinute
        s1 == [s0 EXCEPT !.startTime = t, !.endTime = end, !.running = TRUE]
    IN  setInterval(update(v, s1, end, t), end, t)

startUntil(v, s, end, t) ==
    LET s0 == clearTimer(s)
        s1 == [s0 EXCEPT !.startTime = t, !.endTime = end, !.running = TRUE]
    IN  setInterval(update(v, s1, end, t), end, t)

\* startCustom of src/src/App.vue: starts at once and empties the input
startCustomAutoStop(v, s, t) ==
    IF ~Truthy(parsedCustomMinutes(s.customMinutes)) THEN s
    ELSE [start(v, s, parsedCustomMinutes(s.customMinutes), t)
             EXCEPT !.customMinutes = EmptyInput]

startCustomPrecise(s) ==
    IF ~Truthy(parsedCustomMinutes(s.customMinutes)) THEN s
    ELSE [s EXCEPT !.pendingExactEnd = NULL,
                   !.pendingMinutes = parsedCustomMinutes(s.customMinutes)]

startCustomPending(s) ==
    IF ~Truthy(parsedCustomMinutes(s.customMinutes)) THEN s
    ELSE [s EXCEPT !.pendingMinutes = parsedCustomMinutes(s.customMinutes)]

startCustom(v, s, t) ==
    CASE v = "autostop" -> startCustomAutoStop(v, s, t)
      [] v = "precise"  -> startCustomPrecise(s)
      [] OTHER          -> startCustomPending(s)

\* choosePreset that leaves a pending exact end in place
choosePresetPrecise_KeepExact(s, m) == [s EXCEPT !.pendingMinutes = m]

choosePresetPrecise(s, m) == [s EXCEPT !.pendingExactEnd = NULL, !.pendingMinutes = m]

\* choosePreset that keeps a selection already pending
choosePresetPending_KeepFirst(s, m) ==
    IF s.pendingMinutes # NULL THEN s ELSE [s EXCEPT !.pendingMinutes = m]

choosePresetPending(s, m) == [s EXCEPT !.pendingMinutes = m]

choosePreset(v, s, m) ==
    IF v = "precise" THEN choosePresetPrecise(s, m) ELSE choosePresetPending(s, m)

\* confirmStart that leaves the exact end pending
confirmStartPrecise_KeepPending(v, s, t) ==
    IF s.pendingExactEnd # NULL
    THEN [startUntil(v, s, s.pendingExactEnd, t) EXCEPT !.pendingMinutes = NULL]
    ELSE IF s.pendingMinutes # NULL
    THEN [start(v, s, s.pendingMinutes, t)
             EXCEPT !.pendingMinutes = NULL, !.pendingExactEnd = NULL]
    ELSE s

confirmStartPrecise(v, s, t) ==
    IF s.pendingExactEnd # NULL
    THEN [startUntil(v, s, s.pendingExactEnd, t)
             EXCEPT !.pendingMinutes = NULL, !.pendingExactEnd = NULL]
    ELSE IF s.pendingMinutes # NULL
    THEN [start(v, s, s.pendingMinutes, t)
             EXCEPT !.pendingMinutes = NULL, !.pendingExactEnd = NULL]
    ELSE s

\* confirmStart without the early return
confirmStartPending_NoGuard(v, s, t) ==
    [start(v, s, Max(0, s.pendingMinutes), t) EXCEPT !.pendingMinutes = NULL]

confirmStartPending(v, s, t) ==
    IF s.pendingMinutes = NULL THEN s
    ELSE [start(v, s, s.pendingMinutes, t) EXCEPT !.pendingMinutes = NULL]

confirmStart(v, s, t) ==
    IF v = "precise" THEN confirmStartPrecise(v, s, t) ELSE confirmStartPending(v, s, t)

\* cancelPending that forgets the exact end
cancelPendingPrecise_MinutesOnly(s) == [s EXCEPT !.pendingMinutes = NULL]

cancelPendingPrecise(s) == [s EXCEPT !.pendingMinutes = NULL, !.pendingExactEnd = NULL]

\* cancelPending that also cancels the run
cancelPendingPending_StopsRun(s) == [cancel(s) EXCEPT !.pendingMinutes = NULL]

cancelPendingPending(s) == [s EXCEPT !.pendingMinutes = NULL]

cancelPending(v, s) ==
    IF v = "precise" THEN cancelPendingPrecise(s) ELSE cancelPendingPending(s)

----------------------------------------------------------------------------
(* The precise-end component: the cached computed, setPrecise, shortcuts   *)

\* Assigning preciseEndLocal.  The computed preciseEndIsFuture reads
\* Date.now(), which is no reactive dependency: it is re-evaluated only when
\* preciseEndLocal changes value, at the render that follows the handler.
assignPreciseEndLocal(s, p, t) ==
    IF p = s.preciseEndLocal THEN s
    ELSE [s EXCEPT !.preciseEndLocal = p,
                   !.preciseEndIsFuture = evalPreciseEndIsFuture(p, t)]

previewPreciseEnd(s) ==
    IF ~s.preciseEndIsFuture \/ parsedPreciseEnd(s.preciseEndLocal) = NULL THEN s
    ELSE [s EXCEPT !.pendingMinutes = NULL,
                   !.pendingExactEnd = parsedPreciseEnd(s.preciseEndLocal)]

\* Date getters and setters in the local zone: each setter takes the local
\* wall clock of the date, replaces the fields it is given, and converts the
\* new wall clock back to an instant
getHours(d) == FloorDiv(LocalTime(d) % MsPerDay, MsPerHour)

getMinutes(d) == FloorDiv(LocalTime(d) % MsPerHour, MsPerMinute)

\* d.setHours(h): minutes, seconds and milliseconds kept
setHours(d, h) ==
    LET tl == LocalTime(d)
    IN  UTC(tl - (tl % MsPerDay) + h * MsPerHour + (tl % MsPerHour))

\* d.setHours(h, 0, 0, 0)
setHoursExact(d, h) ==
    LET tl == LocalTime(d)
    IN  UTC(tl - (tl % MsPerDay) + h * MsPerHour)

\* d.setMinutes(mi, 0, 0)
setMinutes(d, mi) ==
    LET tl == LocalTime(d)
    IN  UTC(tl - (tl % MsPerHour) + mi * MsPerMinute)

\* d.setSeconds(0, 0)
setSecondsZero(d) ==
    LET tl == LocalTime(d)
    IN  UTC(tl - (tl % MsPerMinute))

\* d.setDate(d.getDate() + 1): the same wall clock on the next local day
addOneDay(d) == UTC(LocalTime(d) + MsPerDay)

setPrecise(s, date, t) ==
    LET d == setSecondsZero(date)
        s1 == assignPreciseEndLocal(s, toDatetimeLocalValue(d), t)
    IN  IF d > t
        THEN [s1 EXCEPT !.pendingMinutes = NULL, !.pendingExactEnd = d]
        ELSE s1

halfPastTarget(t) ==
    LET d0 == IF getMinutes(t) >= 30 THEN setHours(t, getHours(t) + 1) ELSE t
    IN  setMinutes(d0, 30)

\* end-of-hour target that keeps minute 59 of this hour when now is exactly on it
endOfHourTarget_Strict(t) ==
    LET d0 == setMinutes(t, 59)
    IN  IF d0 < t THEN setMinutes(setHours(d0, getHours(d0) + 1), 59) ELSE d0

endOfHourTarget(t) ==
    LET d0 == setMinutes(t, 59)
    IN  IF d0 <= t THEN setMinutes(setHours(d0, getHours(d0) + 1), 59) ELSE d0

nextHourTarget(t) == setHoursExact(t, getHours(t) + 1)

noonTarget(t) ==
    LET d0 == setHoursExact(t, 12)
    IN  IF d0 <= t THEN addOneDay(d0) ELSE d0

\* const timeZone = 'America/New_York' of shortcutEndOfDay
shortcutTimeZone == "America/New_York"

\* what an operation yields when it throws
Thrown == [kind |-> "throw"]

\* new Intl.DateTimeFormat('en-US', {timeZone, ...}) throws a RangeError on
\* a runtime that does not know the zone; nothing in shortcutEndOfDay catches it
ZoneRejected == shortcutTimeZone \notin runtimeZones

\* dtf.formatToParts(now): the zone's calendar day, as days since the origin
zonedDay(ts) ==
    IF ZoneRejected THEN Thrown ELSE FloorDiv(ts + NYOffsetMs(ts), MsPerDay)

\* Date.UTC(y, mo - 1, d, h, mi, s) for the day numbered `day`
DateUTC(day, h, mi, sec) ==
    day * MsPerDay + h * MsPerHour + mi * MsPerMinute + sec * MsPerSecond

\* an offset helper that ignores daylight saving time
getOffsetMs_FixedEST(ts) == -(5 * MsPerHour)

\* the hours the runtimes render for the hour after midnight when asked
\* for hour12: false in en-US: "00", or "24" with the day unchanged
MidnightHours == {0, 24}

\* the zone's wall clock at ts, to the second, read back as if it were UTC
getOffsetMs(ts) ==
    LET wall == ts + NYOffsetMs(ts)
        day == FloorDiv(wall, MsPerDay)
        h0 == FloorDiv(wall % MsPerDay, MsPerHour)
        h == IF h0 = 0 THEN midnightHour ELSE h0
        mi == FloorDiv(wall % MsPerHour, MsPerMinute)
        sec == FloorDiv(wall % MsPerMinute, MsPerSecond)
    IN  IF ZoneRejected THEN Thrown ELSE DateUTC(day, h, mi, sec) - ts

\* a conversion that takes the wall clock for UTC
zonedTimeToUtc_NoOffset(day, h, mi) == DateUTC(day, h, mi, 0)

zonedTimeToUtc(day, h, mi) ==
    LET initial == DateUTC(day, h, mi, 0)
        off1 == getOffsetMs(initial)
        guess == initial - off1
        off2 == getOffsetMs(guess)
    IN  IF ZoneRejected THEN Thrown ELSE initial - off2

\* targetMs of shortcutEndOfDay; the function throws at its first formatter
\* when the runtime rejects the zone
endOfDayTarget(t) ==
    LET day == zonedDay(t)
        targetMs == zonedTimeToUtc(day, 17, 0)
    IN  IF ZoneRejected THEN Thrown
        ELSE IF targetMs <= t
        THEN LET todayInEt == zonedTimeToUtc(day, 12, 0)
                 tomorrowEt == todayInEt + MsPerDay
             IN  zonedTimeToUtc(zonedDay(tomorrowEt), 17, 0)
        ELSE targetMs

shortcutHalfPast(s, t) == setPrecise(s, halfPastTarget(t), t)

shortcutEndOfHour(s, t) == setPrecise(s, endOfHourTarget(t), t)

shortcutNextHour(s, t) == setPrecise(s, nextHourTarget(t), t)

shortcutNoon(s, t) == setPrecise(s, noonTarget(t), t)

\* the RangeError leaves the handler before any ref is written
shortcutEndOfDay(s, t) ==
    IF ZoneRejected THEN s ELSE setPrecise(s, endOfDayTarget(t), t)

----------------------------------------------------------------------------
(* Rendering of instants *)
(* A rendered string is modelled by the fields it shows. *)

\* usTimezones: zone identifier and standard offset from UTC, in hours
usTimezones ==
    { [label |-> "Eastern",  zone |-> "America/New_York",    std |-> -5, dst |-> TRUE],
      [label |-> "Central",  zone |-> "America/Chicago",     std |-> -6, dst |-> TRUE],
      [label |-> "Mountain", zone |-> "America/Denver",      std |-> -7, dst |-> TRUE],
      [label |-> "Arizona",  zone |-> "America/Phoenix",     std |-> -7, dst |-> FALSE],
      [label |-> "Pacific",  zone |-> "America/Los_Angeles", std |-> -8, dst |-> TRUE],
      [label |-> "Alaska",   zone |-> "America/Anchorage",   std |-> -9, dst |-> TRUE],
      [label |-> "Hawaii",   zone |-> "Pacific/Honolulu",    std |-> -10, dst |-> FALSE] }

ZoneIds == { tz.zone : tz \in usTimezones }

\* an identifier no zone database knows
UnknownZone == "Nowhere/Nothing"

ZoneOf(z) == CHOOSE tz \in usTimezones : tz.zone = z

\* daylight time is in force in zone z at instant ts: from 02:00 standard
\* time on the spring-forward date to 01:00 standard time on the fall-back date
ZoneIsDst(z, ts) ==
    LET tz == ZoneOf(z)
        shift == (-5 - tz.std) * MsPerHour
    IN  /\ tz.dst
        /\ AtOrAfter(ts, SpringForwardDay, SpringForwardMsOfDay + shift)
        /\ ~AtOrAfter(ts, FallBackDay, FallBackMsOfDay + shift)

ZoneOffsetMs(z, ts) ==
    (ZoneOf(z).std + (IF ZoneIsDst(z, ts) THEN 1 ELSE 0)) * MsPerHour

\* day of the week of the day numbered `day` on the time line (0 = Sunday);
\* 2024-03-09 is a Saturday
Weekday(day) == (6 + originDay + day) % 7

Placeholder == [kind |-> "placeholder"]

formatClock(d) ==
    IF d = NULL THEN Placeholder
    ELSE [kind |-> "clock", hour |-> getHours(d), minute |-> getMinutes(d)]

\* new Intl.DateTimeFormat(undefined, {..., timeZone}).format(d): a RangeError
\* when the runtime does not know the zone
DateTimeFormatInZone(d, timeZone) ==
    IF timeZone \notin runtimeZones THEN Thrown
    ELSE LET wall == d + ZoneOffsetMs(timeZone, d)
         IN  [kind |-> "zoned",
              weekday |-> Weekday(FloorDiv(wall, MsPerDay)),
              hour |-> FloorDiv(wall % MsPerDay, MsPerHour),
              minute |-> FloorDiv(wall % MsPerHour, MsPerMinute),
              timeZoneName |-> <<timeZone, ZoneIsDst(timeZone, d)>>]

\* a formatInZone without the catch clause
formatInZone_NoCatch(d, timeZone) ==
    IF d = NULL THEN Placeholder ELSE DateTimeFormatInZone(d, timeZone)

formatInZone(d, timeZone) ==
    IF d = NULL THEN Placeholder
    ELSE LET r == DateTimeFormatInZone(d, timeZone)
         IN  IF r = Thrown THEN formatClock(d) ELSE r

\* Strings are sequences of one-character strings.
DigitChars == <<"0", "1", "2", "3", "4", "5", "6", "7", "8", "9">>

\* String(n) for a natural number n
RECURSIVE String(_)
String(n) ==
    IF n < 10 THEN <<DigitChars[n + 1]>>
    ELSE String(n \div 10) \o <<DigitChars[(n % 10) + 1]>>

\* str.padStart(2, '0')
padStart2(str) == IF Len(str) < 2 THEN <<"0">> \o str ELSE str

\* the template string `${minutes padded}:${seconds padded}`
clockString(totalSeconds) ==
    LET minutes == FloorDiv(totalSeconds, 60)
        seconds == totalSeconds % 60
    IN  padStart2(String(minutes)) \o <<":">> \o padStart2(String(seconds))

Abs(n) == IF n < 0 THEN -n ELSE n

\* countdown of src/src/App.vue
countdownAutoStop(ms) == clockString(FloorDiv(Max(0, ms), MsPerSecond))

\* an overdue countdown that shows no sign
countdownOverdue_NoSign(ms) == clockString(FloorDiv(Abs(ms), MsPerSecond))

\* countdown of the components with the overdue banner
countdownOverdue(ms) ==
    LET sign == IF ms < 0 THEN <<"-">> ELSE <<>>
    IN  sign \o clockString(FloorDiv(Abs(ms), MsPerSecond))

countdown(v, ms) ==
    IF v = "autostop" THEN countdownAutoStop(ms) ELSE countdownOverdue(ms)

\* the computed expiresByZone, by zone identifier
expiresByZone == [z \in ZoneIds |-> formatInZone(endTime, z)]

----------------------------------------------------------------------------
(* What the template shows *)

\* a picker that stays visible during a run in every component
PickerVisible_Always == mounted

\* <section class="picker">: hidden while running in the precise component only
PickerVisible == mounted /\ (variant = "precise" => ~running)

\* <div class="confirm">, inside the picker
ConfirmVisible ==
    /\ PickerVisible
    /\ variant # "autostop"
    /\ (pendingMinutes # NULL \/ pendingExactEnd # NULL)

\* <section v-if="running" class="status">
StatusVisible == mounted /\ running

----------------------------------------------------------------------------
(* Actions *)

\* the history of a handler run: its name, its argument, what it found
Ran(op, arg) ==
    [op |-> op, arg |-> arg, live |-> tickHandle # NULL,
     pendM |-> pendingMinutes # NULL, pendE |-> pendingExactEnd # NULL]

Apply(r, op, arg) ==
    /\ customMinutes' = r.customMinutes
    /\ preciseEndLocal' = r.preciseEndLocal
    /\ preciseEndIsFuture' = r.preciseEndIsFuture
    /\ pendingMinutes' = r.pendingMinutes
    /\ pendingExactEnd' = r.pendingExactEnd
    /\ running' = r.running
    /\ startTime' = r.startTime
    /\ endTime' = r.endTime
    /\ remainingMs' = r.remainingMs
    /\ tickHandle' = r.tickHandle
    /\ intervals' = r.intervals
    /\ lastOp' = Ran(op, arg)
    /\ UNCHANGED <<variant, runtimeZones, originDay, midnightHour, localZone, mounted, now>>

Init ==
    /\ variant \in Variants
    /\ runtimeZones = ZoneIds
    /\ originDay = 0
    /\ midnightHour = 0
    /\ localZone = "UTC"
    /\ mounted = TRUE
    /\ now = StartNow
    /\ customMinutes = InitialState.customMinutes
    /\ preciseEndLocal = InitialState.preciseEndLocal
    /\ preciseEndIsFuture = InitialState.preciseEndIsFuture
    /\ pendingMinutes = InitialState.pendingMinutes
    /\ pendingExactEnd = InitialState.pendingExactEnd
    /\ running = InitialState.running
    /\ startTime = InitialState.startTime
    /\ endTime = InitialState.endTime
    /\ remainingMs = InitialState.remainingMs
    /\ tickHandle = InitialState.tickHandle
    /\ intervals = InitialState.intervals
    /\ lastOp = [op |-> "mount", arg |-> NULL, live |-> FALSE, pendM |-> FALSE, pendE |-> FALSE]

\* the clock moves on by a millisecond or by a minute
AdvanceMs ==
    /\ (now - StartNow) % MsPerMinute < MaxFine
    /\ now + 1 <= MaxNow
    /\ now' = now + 1
    /\ UNCHANGED <<variant, runtimeZones, originDay, midnightHour, localZone, mounted, customMinutes, preciseEndLocal, preciseEndIsFuture,
                   pendingMinutes, pendingExactEnd, running, startTime, endTime,
                   remainingMs, tickHandle, intervals, lastOp>>

AdvanceMinute ==
    /\ now + MsPerMinute <= MaxNow
    /\ now' = now + MsPerMinute
    /\ UNCHANGED <<variant, runtimeZones, originDay, midnightHour, localZone, mounted, customMinutes, preciseEndLocal, preciseEndIsFuture,
                   pendingMinutes, pendingExactEnd, running, startTime, endTime,
                   remainingMs, tickHandle, intervals, lastOp>>

\* v-model="customMinutes"
TypeCustom ==
    /\ PickerVisible
    /\ \E c \in CustomInputs :
          /\ c # customMinutes
          /\ Apply([S EXCEPT !.customMinutes = c], "typeCustom", NULL)

\* v-model="preciseEndLocal"
TypePrecise ==
    /\ PickerVisible
    /\ variant = "precise"
    /\ \E p \in PreciseInputs :
          /\ p # preciseEndLocal
          /\ Apply(assignPreciseEndLocal(S, p, now), "typePrecise", NULL)

\* @click="start(m)" on a preset button of src/src/App.vue
StartPreset ==
    /\ PickerVisible
    /\ variant = "autostop"
    /\ \E m \in options : Apply(start(variant, S, m, now), "start", m)

\* @click="startCustom"; the button is disabled unless parsedCustomMinutes is truthy
StartCustom ==
    /\ PickerVisible
    /\ Truthy(parsedCustomMinutes(customMinutes))
    /\ Apply(startCustom(variant, S, now), "startCustom", NULL)

ChoosePreset ==
    /\ PickerVisible
    /\ variant # "autostop"
    /\ \E m \in options : Apply(choosePreset(variant, S, m), "choosePreset", m)

ConfirmStart ==
    /\ ConfirmVisible
    /\ Apply(confirmStart(variant, S, now), "confirmStart", NULL)

CancelPending ==
    /\ ConfirmVisible
    /\ Apply(cancelPending(variant, S), "cancelPending", NULL)

\* the Preview button is disabled unless preciseEndIsFuture
PreviewPreciseEnd ==
    /\ PickerVisible
    /\ variant = "precise"
    /\ preciseEndIsFuture
    /\ Apply(previewPreciseEnd(S), "previewPreciseEnd", NULL)

ShortcutHalfPast ==
    /\ PickerVisible
    /\ variant = "precise"
    /\ Apply(shortcutHalfPast(S, now), "shortcutHalfPast", NULL)

ShortcutEndOfHour ==
    /\ PickerVisible
    /\ variant = "precise"
    /\ Apply(shortcutEndOfHour(S, now), "shortcutEndOfHour", NULL)

ShortcutNextHour ==
    /\ PickerVisible
    /\ variant = "precise"
    /\ Apply(shortcutNextHour(S, now), "shortcutNextHour", NULL)

ShortcutNoon ==
    /\ PickerVisible
    /\ variant = "precise"
    /\ Apply(shortcutNoon(S, now), "shortcutNoon", NULL)

ShortcutEndOfDay ==
    /\ PickerVisible
    /\ variant = "precise"
    /\ Apply(shortcutEndOfDay(S, now), "shortcutEndOfDay", NULL)

Cancel ==
    /\ StatusVisible
    /\ Apply(cancel(S), "cancel", NULL)

\* history kept with a tick: 1 when the last handlers to run were the start
\* of a run that replaced a running one (its clearTimer found a ticker) and
\* then ticks only, 0 otherwise
RunReplaced ==
    IF lastOp.op = "tick" THEN lastOp.arg
    ELSE IF /\ \/ lastOp.op \in {"start", "confirmStart"}
               \/ lastOp.op = "startCustom" /\ variant = "autostop"
            /\ lastOp.live
         THEN 1
         ELSE 0

\* a live interval fires: its callback is the update closure of the start
\* that registered it, no sooner than 250 ms after registration
Tick ==
    \E iv \in intervals :
        /\ now >= iv.since + TickMs
        /\ Apply(update(variant, S, iv.end, now), "tick", RunReplaced)

\* onBeforeUnmount(() => clearTimer())
Unmount ==
    /\ mounted
    /\ mounted' = FALSE
    /\ tickHandle' = clearTimer(S).tickHandle
    /\ intervals' = clearTimer(S).intervals
    /\ lastOp' = Ran("unmount", NULL)
    /\ UNCHANGED <<variant, runtimeZones, originDay, midnightHour, localZone, now, customMinutes, preciseEndLocal, preciseEndIsFuture,
                   pendingMinutes, pendingExactEnd, running, startTime, endTime,
                   remainingMs>>

Next ==
    \/ AdvanceMs
    \/ AdvanceMinute
    \/ TypeCustom
    \/ TypePrecise
    \/ StartPreset
    \/ StartCustom
    \/ ChoosePreset
    \/ ConfirmStart
    \/ CancelPending
    \/ PreviewPreciseEnd
    \/ ShortcutHalfPast
    \/ ShortcutEndOfHour
    \/ ShortcutNextHour
    \/ ShortcutNoon
    \/ ShortcutEndOfDay
    \/ Cancel
    \/ Tick
    \/ Unmount

Spec == Init /\ [][Next]_vars

----------------------------------------------------------------------------
(* The auto-stop component with a clock that keeps going                   *)
(* User input is confined to the first minutes (now <= MaxNow); while a    *)
(* run is on, time passes until the run's end.  The interval callback      *)
(* fires as long as it is registered, and time does not stop.              *)

InitLive == Init /\ variant = "autostop"

\* time passes up to the end of the run, or MaxFine milliseconds beyond it
AdvanceToEnd ==
    /\ running
    /\ now < endTime
    /\ \E d \in 0..MaxFine : now' = endTime + d
    /\ UNCHANGED <<variant, runtimeZones, originDay, midnightHour, localZone, mounted, customMinutes, preciseEndLocal, preciseEndIsFuture,
                   pendingMinutes, pendingExactEnd, running, startTime, endTime,
                   remainingMs, tickHandle, intervals, lastOp>>

LiveTypeCustom == now <= MaxNow /\ TypeCustom

LiveStartPreset == now <= MaxNow /\ StartPreset

LiveStartCustom == now <= MaxNow /\ StartCustom

NextLive ==
    \/ AdvanceMs
    \/ AdvanceMinute
    \/ AdvanceToEnd
    \/ LiveTypeCustom
    \/ LiveStartPreset
    \/ LiveStartCustom
    \/ Cancel
    \/ Tick
    \/ Unmount

SpecLive == InitLive /\ [][NextLive]_vars /\ WF_vars(Tick) /\ WF_vars(AdvanceToEnd)

----------------------------------------------------------------------------
(* The end-of-day shortcut at instants spread over the time line           *)
(* The time line begins on 2024-03-09 or on 2024-11-02, the day before a   *)
(* zone transition, on a runtime of either hour rendering that knows the   *)
(* shortcut's zone or rejects it.  The precise                             *)
(* component is mounted at an instant of a half-hour grid covering TzDays  *)
(* days, or up to MaxFine milliseconds before or after it, and the         *)
(* shortcut is clicked.                                                    *)

\* the grid's spacing, and its first instant (05:00Z on the first day)
TzSlotMs == 30 * MsPerMinute

TzFirstMs == 5 * MsPerHour

\* runtimes that know every listed zone, and all but the shortcut's
TzRuntimeZoneSets == {ZoneIds, ZoneIds \ {shortcutTimeZone}}

TzInstants ==
    { TzFirstMs + k * TzSlotMs + d :
          k \in 1..(TzDays * (MsPerDay \div TzSlotMs)), d \in (-MaxFine)..MaxFine }

InitTz ==
    /\ variant = "precise"
    /\ runtimeZones \in TzRuntimeZoneSets
    /\ originDay \in OriginDays
    /\ midnightHour \in MidnightHours
    /\ localZone = "UTC"
    /\ mounted = TRUE
    /\ now \in TzInstants
    /\ customMinutes = InitialState.customMinutes
    /\ preciseEndLocal = InitialState.preciseEndLocal
    /\ preciseEndIsFuture = InitialState.preciseEndIsFuture
    /\ pendingMinutes = InitialState.pendingMinutes
    /\ pendingExactEnd = InitialState.pendingExactEnd
    /\ running = InitialState.running
    /\ startTime = InitialState.startTime
    /\ endTime = InitialState.endTime
    /\ remainingMs = InitialState.remainingMs
    /\ tickHandle = InitialState.tickHandle
    /\ intervals = InitialState.intervals
    /\ lastOp = [op |-> "mount", arg |-> NULL, live |-> FALSE, pendM |-> FALSE, pendE |-> FALSE]

NextTz ==
    \/ ShortcutEndOfDay
    \/ CancelPending

SpecTz == InitTz /\ [][NextTz]_vars

----------------------------------------------------------------------------
(* The local shortcuts at instants spread over a day                       *)
(* The precise component is mounted at some hour of the day, at one of the *)
(* minutes and seconds below or up to MaxFine milliseconds before or after *)
(* it, and shortcuts are clicked.                                          *)

ShortcutMinutes == {0, 1, 29, 30, 31, 58, 59}

ShortcutSeconds == {0, 30}

\* 00:00Z of the second day of the time line: 2024-03-10 or 2024-11-03, the
\* days on which America/New_York changes its offset
ShortcutDayMs == MsPerDay

ShortcutInstants ==
    { ShortcutDayMs + h * MsPerHour + mi * MsPerMinute + sec * MsPerSecond + d :
          h \in 0..23, mi \in ShortcutMinutes, sec \in ShortcutSeconds,
          d \in (-MaxFine)..MaxFine }

InitShortcut ==
    /\ variant = "precise"
    /\ runtimeZones = ZoneIds
    /\ originDay \in OriginDays
    /\ midnightHour = 0
    /\ localZone \in LocalZones
    /\ mounted = TRUE
    /\ now \in ShortcutInstants
    /\ customMinutes = InitialState.customMinutes
    /\ preciseEndLocal = InitialState.preciseEndLocal
    /\ preciseEndIsFuture = InitialState.preciseEndIsFuture
    /\ pendingMinutes = InitialState.pendingMinutes
    /\ pendingExactEnd = InitialState.pendingExactEnd
    /\ running = InitialState.running
    /\ startTime = InitialState.startTime
    /\ endTime = InitialState.endTime
    /\ remainingMs = InitialState.remainingMs
    /\ tickHandle = InitialState.tickHandle
    /\ intervals = InitialState.intervals
    /\ lastOp = [op |-> "mount", arg |-> NULL, live |-> FALSE, pendM |-> FALSE, pendE |-> FALSE]

NextShortcut ==
    \/ ChoosePreset
    \/ ShortcutHalfPast
    \/ ShortcutEndOfHour
    \/ ShortcutNextHour
    \/ ShortcutNoon

SpecShortcut == InitShortcut /\ [][NextShortcut]_vars

----------------------------------------------------------------------------
(* The confirm-step components on runtimes that know only some zones       *)

RuntimeZoneSets == SUBSET ZoneIds

InitFmt ==
    /\ variant \in {"precise", "pending"}
    /\ runtimeZones \in RuntimeZoneSets
    /\ originDay = 0
    /\ midnightHour = 0
    /\ localZone = "UTC"
    /\ mounted = TRUE
    /\ now = StartNow
    /\ customMinutes = InitialState.customMinutes
    /\ preciseEndLocal = InitialState.preciseEndLocal
    /\ preciseEndIsFuture = InitialState.preciseEndIsFuture
    /\ pendingMinutes = InitialState.pendingMinutes
    /\ pendingExactEnd = InitialState.pendingExactEnd
    /\ running = InitialState.running
    /\ startTime = InitialState.startTime
    /\ endTime = InitialState.endTime
    /\ remainingMs = InitialState.remainingMs
    /\ tickHandle = InitialState.tickHandle
    /\ intervals = InitialState.intervals
    /\ lastOp = [op |-> "mount", arg |-> NULL, live |-> FALSE, pendM |-> FALSE, pendE |-> FALSE]

NextFmt ==
    \/ AdvanceMinute
    \/ ChoosePreset
    \/ ConfirmStart
    \/ CancelPending
    \/ Cancel
    \/ Tick

SpecFmt == InitFmt /\ [][NextFmt]_vars

----------------------------------------------------------------------------
(* Properties *)

\* a step taken by a handler (the clock stands still while a handler runs)
HandlerStep(op) == now' = now /\ lastOp'.op = op

NoPending == pendingMinutes = NULL /\ pendingExactEnd = NULL

\* the state after a step, as a record
StateAfter ==
    [customMinutes |-> customMinutes', preciseEndLocal |-> preciseEndLocal',
     preciseEndIsFuture |-> preciseEndIsFuture',
     pendingMinutes |-> pendingMinutes', pendingExactEnd |-> pendingExactEnd',
     running |-> running', startTime |-> startTime', endTime |-> endTime',
     remainingMs |-> remainingMs', tickHandle |-> tickHandle', intervals |-> intervals']

Idle ==
    /\ ~running
    /\ startTime = NULL
    /\ endTime = NULL
    /\ remainingMs = 0
    /\ tickHandle = NULL
    /\ intervals = {}

\* C1: in every variant and every reachable state at most one interval
\* callback is registered, and it is the one tickHandle names.
C1_AtMostOneInterval ==
    /\ Cardinality(intervals) <= 1
    /\ \A iv \in intervals : iv.id = tickHandle

\* a run was started while another one's interval was live
C1_Witness ==
    /\ lastOp.op \in {"start", "startCustom", "confirmStart"}
    /\ lastOp.live
    /\ running
    /\ Cardinality(intervals) = 1

C2_StartedWith(m) == startTime' = now /\ endTime' - startTime' = m * MsPerMinute

\* C2: a run created by start(m) at instant T has startTime = T and
\* endTime - startTime = m * 60000, whichever handler called start: the
\* preset button, startCustom of the auto-stop component, or confirmStart
\* with pending minutes.
C2_StartDuration ==
    [][/\ HandlerStep("start") => C2_StartedWith(lastOp'.arg)
       /\ (HandlerStep("startCustom") /\ variant = "autostop")
             => C2_StartedWith(parsedCustomMinutes(customMinutes))
       /\ (HandlerStep("confirmStart") /\ pendingExactEnd = NULL /\ pendingMinutes # NULL)
             => C2_StartedWith(pendingMinutes)]_vars

\* a 75-minute run started after the clock has moved
C2_Witness ==
    /\ lastOp.op \in {"start", "confirmStart"}
    /\ startTime > StartNow
    /\ startTime = now
    /\ endTime = startTime + 75 * MsPerMinute

\* C3: confirmStart with a pending selection starts a run at the current
\* instant, ending at the pending exact end if there is one and else after
\* the pending minutes, clears both pending fields and registers a ticker.
C3_ConfirmStarts ==
    [][HandlerStep("confirmStart") =>
          /\ pendingExactEnd # NULL =>
                running' /\ startTime' = now /\ endTime' = pendingExactEnd
          /\ (pendingExactEnd = NULL /\ pendingMinutes # NULL) =>
                running' /\ startTime' = now
                         /\ endTime' = now + pendingMinutes * MsPerMinute
          /\ ~NoPending =>
                /\ pendingMinutes' = NULL
                /\ pendingExactEnd' = NULL
                /\ tickHandle' # NULL
                /\ \E iv \in intervals' : iv.id = tickHandle' /\ iv.end = endTime']_vars

\* a pending exact end has been confirmed
C3_Witness ==
    /\ lastOp.op = "confirmStart"
    /\ lastOp.pendE
    /\ running
    /\ startTime = now
    /\ NoPending
    /\ tickHandle # NULL

\* C4: with no selection pending, confirmStart changes nothing, whether the
\* timer is idle or a run is in progress.
C4_ConfirmNoOp ==
    (variant # "autostop" /\ NoPending) => confirmStart(variant, S, now) = S

\* a run is in progress, just confirmed, and nothing is pending
C4_Witness ==
    /\ variant # "autostop"
    /\ NoPending
    /\ running
    /\ lastOp.op = "confirmStart"
    /\ confirmStart(variant, S, now) = S

\* C5: every run has endTime >= startTime when it is created (the two
\* fields are written only when a run is created).
C5_EndNotBeforeStart == startTime # NULL => endTime >= startTime

\* C6: in the precise-time variant at most one of pendingMinutes and
\* pendingExactEnd is non-null.
C6_OneSelection ==
    variant = "precise" => ~(pendingMinutes # NULL /\ pendingExactEnd # NULL)

\* minutes were chosen while an exact end was pending
C6_Witness ==
    /\ variant = "precise"
    /\ lastOp.op \in {"choosePreset", "startCustom"}
    /\ lastOp.pendE
    /\ pendingMinutes # NULL
    /\ pendingExactEnd = NULL

\* C7: cancel while running leaves the timer idle with no interval
\* registered, and an idle timer stays idle until a handler starts a run.
C7_CancelStops ==
    [][/\ (HandlerStep("cancel") /\ running) => Idle'
       /\ Idle => (Idle' \/ lastOp'.op \in {"start", "startCustom", "confirmStart"})]_vars

\* a run has been cancelled and the clock has moved on since
C7_Witness ==
    /\ lastOp.op = "cancel"
    /\ lastOp.live
    /\ Idle
    /\ now > StartNow + MsPerMinute

\* C8 as stated: whenever running = false, cancel changes nothing.
C8_CancelNoOpWhenNotRunning == ~running => cancel(S) = S

\* C8 amended: cancel changes nothing when running = false and no start
\* and end time are left over from a run; after a run of the auto-stop
\* component has ended by itself, cancel clears the start and end time it
\* left and nothing else.  Twice cancel is once cancel.
C8_CancelIdempotent ==
    /\ (~running /\ startTime = NULL /\ endTime = NULL) => cancel(S) = S
    /\ ~running => cancel(S) = [S EXCEPT !.startTime = NULL, !.endTime = NULL]
    /\ (~running /\ variant # "autostop") => startTime = NULL /\ endTime = NULL
    /\ cancel(cancel(S)) = cancel(S)

\* a cancelled timer with a selection pending
C8_Witness ==
    /\ lastOp.op = "cancel"
    /\ ~running
    /\ pendingMinutes # NULL
    /\ cancel(S) = S

\* C9: in the auto-stop component a tick that finds endTime - now <= 0 sets
\* remainingMs to 0 and running to false and removes the interval; a tick
\* that finds endTime - now > 0 leaves the run running and the interval
\* registered.
C9_TickAutoStop ==
    [][(HandlerStep("tick") /\ variant = "autostop") =>
          /\ endTime - now <= 0 =>
                remainingMs' = 0 /\ ~running' /\ tickHandle' = NULL /\ intervals' = {}
          /\ endTime - now > 0 =>
                running' /\ tickHandle' # NULL /\ intervals' = intervals]_vars

\* a tick at the very instant of expiry has stopped the run
C9_Witness ==
    /\ variant = "autostop"
    /\ lastOp.op = "tick"
    /\ endTime = now
    /\ ~running
    /\ intervals = {}

\* C10: in the auto-stop component remainingMs is never negative.
C10_RemainingNonNegative == variant = "autostop" => remainingMs >= 0

\* a tick after the end of the run has stored 0
C10_Witness ==
    /\ variant = "autostop"
    /\ lastOp.op = "tick"
    /\ endTime # NULL
    /\ now > endTime
    /\ remainingMs = 0

\* C11: in the overdue-banner components, right after a run is started and
\* after every tick of a running run, remainingMs is endTime - now, never
\* clamped: negative once the end has passed.
C11_RemainingExact ==
    [][(/\ variant # "autostop"
        /\ \/ HandlerStep("tick") /\ running
           \/ HandlerStep("confirmStart") /\ ~NoPending) =>
          /\ remainingMs' = endTime' - now'
          /\ now' > endTime' => remainingMs' < 0]_vars

\* a tick after the end of the run has stored a negative remainder
C11_Witness ==
    /\ variant # "autostop"
    /\ lastOp.op = "tick"
    /\ running
    /\ now > endTime
    /\ remainingMs = endTime - now
    /\ remainingMs < 0

\* C12: in the overdue-banner components running becomes false only in a
\* cancel step; neither a tick nor the passing of time changes running or
\* the registered ticker, so an expired run stays running.
C12_OnlyCancelStops ==
    [][variant # "autostop" =>
          /\ (running /\ ~running') => HandlerStep("cancel")
          /\ (running /\ (HandlerStep("tick") \/ now' # now)) =>
                running' /\ tickHandle' = tickHandle /\ intervals' = intervals]_vars

\* an expired run, ticked after its end, still running with its ticker
C12_Witness ==
    /\ variant # "autostop"
    /\ lastOp.op = "tick"
    /\ now > endTime
    /\ running
    /\ tickHandle # NULL
    /\ Cardinality(intervals) = 1

\* a run has just been started: no time has passed and no other handler ran
C13_JustStarted == lastOp.op \in {"start", "startCustom"} /\ startTime = now

\* C13: in the auto-stop component, while the clock advances and the
\* interval callback fires, every run ends with running = false and no
\* interval registered, unless a new run is started in its place (or the
\* component is unmounted, which removes the callback).
C13_RunEnds ==
    (mounted /\ running) ~> ((~running /\ intervals = {}) \/ C13_JustStarted \/ ~mounted)

\* a 75-minute run has ended by itself
C13_Witness ==
    /\ lastOp.op = "tick"
    /\ mounted
    /\ ~running
    /\ intervals = {}
    /\ endTime = startTime + 75 * MsPerMinute
    /\ now >= endTime

\* input that is no number of at least 1: empty, text, zero, negative, or a
\* positive fraction below 1
C14_IsInvalid(c) == c.kind # "num" \/ c.num < c.den

\* C14: with invalid custom-minutes input startCustom changes nothing, and
\* the minutes that reach start (directly, or by way of pendingMinutes) are
\* always at least 1.
C14_InvalidCustomRejected ==
    /\ C14_IsInvalid(customMinutes) => startCustom(variant, S, now) = S
    /\ startCustom(variant, S, now) # S => parsedCustomMinutes(customMinutes) >= 1
    /\ pendingMinutes # NULL => pendingMinutes >= 1
    /\ lastOp.op = "start" => lastOp.arg >= 1

\* a fraction below 1 has been typed and startCustom would do nothing
C14_Witness ==
    /\ customMinutes = Num(1, 2)
    /\ lastOp.op = "typeCustom"
    /\ startCustom(variant, S, now) = S
    /\ ~running
    /\ pendingMinutes = NULL

\* C15 as stated: in neither pending-selection component is a selection
\* pending while a run is running.
C15_NoPendingWhileRunning == variant # "autostop" => ~(running /\ ~NoPending)

\* C15 amended: in the precise-time component, whose picker is hidden
\* during a run, no selection is pending while a run is running.  (The
\* minutes-only component shows its picker during a run, and a selection
\* can be pending then.)
C15_PreciseNoPendingWhileRunning == variant = "precise" => ~(running /\ ~NoPending)

\* the precise-time component runs a confirmed selection, picker hidden
C15_Witness ==
    /\ variant = "precise"
    /\ mounted
    /\ running
    /\ lastOp.op = "confirmStart"
    /\ lastOp.pendM
    /\ NoPending
    /\ ~PickerVisible

\* C16: choosePreset(m), and startCustom with a valid parsed value m, leave
\* exactly the minutes m pending and no exact end, whatever was pending.
C16_ChooseOverwrites ==
    [][/\ HandlerStep("choosePreset") =>
             pendingMinutes' = lastOp'.arg /\ pendingExactEnd' = NULL
       /\ (HandlerStep("startCustom") /\ variant # "autostop") =>
             /\ pendingMinutes' = parsedCustomMinutes(customMinutes)
             /\ pendingExactEnd' = NULL]_vars

\* 75 minutes chosen over a selection that was pending
C16_Witness ==
    /\ lastOp.op = "choosePreset"
    /\ lastOp.pendM
    /\ lastOp.arg = 75
    /\ pendingMinutes = 75
    /\ pendingExactEnd = NULL

\* C17: after cancelPending nothing is pending, and confirmStart called
\* next changes nothing (starts no run).
C17_CancelPendingClears ==
    [][HandlerStep("cancelPending") =>
          /\ pendingMinutes' = NULL
          /\ pendingExactEnd' = NULL
          /\ confirmStart(variant, StateAfter, now) = StateAfter
          /\ running' = running
          /\ intervals' = intervals]_vars

\* a pending exact end has been cancelled
C17_Witness ==
    /\ lastOp.op = "cancelPending"
    /\ lastOp.pendE
    /\ NoPending
    /\ ~running

C18_SetsExactEnd == {"previewPreciseEnd", "shortcutHalfPast", "shortcutEndOfHour",
                     "shortcutNextHour", "shortcutNoon", "shortcutEndOfDay"}

\* C18: previewPreciseEnd changes nothing when the precise end is empty,
\* unparseable or not after the current time, and an exact end is only
\* ever stored while it is after the current time.
C18_PastEndRejected ==
    [][/\ (/\ HandlerStep("previewPreciseEnd")
           /\ ~(/\ parsedPreciseEnd(preciseEndLocal) # NULL
                /\ parsedPreciseEnd(preciseEndLocal) > now)) => StateAfter = S
       /\ (/\ now' = now
           /\ lastOp'.op \in C18_SetsExactEnd
           /\ pendingExactEnd' # pendingExactEnd) => pendingExactEnd' > now]_vars

\* the zone's wall clock at instant u reads 17:00:00.000
C19_IsFivePm(u) == (u + NYOffsetMs(u)) % MsPerDay = 17 * MsPerHour

\* the whole hours from t up to u: the zone's offsets are whole hours, so
\* every instant whose wall clock reads 17:00 is one of them
C19_WholeHours(t, u) == { h * MsPerHour : h \in (t \div MsPerHour)..(u \div MsPerHour) }

\* C19: at every instant now, the instant computed by shortcutEndOfDay is
\* strictly after now, reads exactly 17:00 on the America/New_York wall
\* clock, and no earlier instant after now reads 17:00 there; once the
\* shortcut has run, that instant is the pending exact end.  On a runtime
\* that rejects the zone no instant is computed: the shortcut throws and
\* changes nothing.
C19_NextFivePm ==
    LET target == endOfDayTarget(now)
    IN  /\ ZoneRejected => (target = Thrown /\ shortcutEndOfDay(S, now) = S)
        /\ ~ZoneRejected =>
              /\ target > now
              /\ C19_IsFivePm(target)
              /\ \A u \in C19_WholeHours(now, target) :
                     (u > now /\ u < target) => ~C19_IsFivePm(u)
              /\ lastOp.op = "shortcutEndOfDay" =>
                     pendingExactEnd = target /\ pendingMinutes = NULL

\* the shortcut has run on the spring-forward date, after that day's 17:00
\* has passed, and on the fall-back date before 17:00
C19_Witness ==
    /\ ~ZoneRejected
    /\ lastOp.op = "shortcutEndOfDay"
    /\ \/ /\ originDay + zonedDay(now) = SpringForwardDay
          /\ pendingExactEnd = endOfDayTarget(now)
          /\ zonedDay(pendingExactEnd) = zonedDay(now) + 1
       \/ /\ originDay + zonedDay(now) = FallBackDay
          /\ AtOrAfter(now, FallBackDay, FallBackMsOfDay)
          /\ pendingExactEnd = endOfDayTarget(now)
          /\ zonedDay(pendingExactEnd) = zonedDay(now)

\* 2024-03-09T06:30:00Z, on the time line that begins on 2024-03-09
C20_Now == 6 * MsPerHour + 30 * MsPerMinute

\* C20 as stated: at now = 2024-03-09T06:30:00Z the computed instant is
\* 2024-03-09T21:00:00Z.
C20_ScenarioYields21h ==
    (originDay = 0 /\ now = C20_Now /\ ~ZoneRejected) => endOfDayTarget(now) = 21 * MsPerHour

\* C20: at now = 2024-03-09T06:30:00Z (01:30 in New York, the day before the
\* spring-forward date, offset -5h) the instant computed by shortcutEndOfDay
\* is 2024-03-09T22:00:00Z, and the shortcut makes it the pending exact end.
C20_ScenarioYields22h ==
    (originDay = 0 /\ now = C20_Now /\ ~ZoneRejected) =>
        /\ endOfDayTarget(now) = 22 * MsPerHour
        /\ lastOp.op = "shortcutEndOfDay" => pendingExactEnd = 22 * MsPerHour

C20_Witness ==
    /\ ~ZoneRejected
    /\ originDay = 0
    /\ now = C20_Now
    /\ lastOp.op = "shortcutEndOfDay"
    /\ pendingExactEnd = 22 * MsPerHour

\* C21: formatInZone never yields an error: for a null instant it returns
\* the placeholder, and for a zone the runtime rejects it returns exactly
\* formatClock(d); so does every entry of expiresByZone.
C21_FormatInZoneNeverThrows ==
    variant # "autostop" =>
        /\ \A z \in ZoneIds \cup {UnknownZone} :
              /\ formatInZone(NULL, z) = Placeholder
              /\ \A d \in {endTime, pendingExactEnd, now} :
                    /\ formatInZone(d, z) # Thrown
                    /\ (d # NULL /\ z \notin runtimeZones) =>
                          formatInZone(d, z) = formatClock(d)
        /\ \A z \in ZoneIds :
              /\ expiresByZone[z] # Thrown
              /\ endTime = NULL => expiresByZone[z] = Placeholder
              /\ (endTime # NULL /\ z \notin runtimeZones) =>
                    expiresByZone[z] = formatClock(endTime)

\* a run is on, the runtime knows Chicago and rejects New York: the New York
\* entry shows the local clock, the Chicago entry the zone's
C21_Witness ==
    /\ running
    /\ endTime # NULL
    /\ "America/New_York" \notin runtimeZones
    /\ "America/Chicago" \in runtimeZones
    /\ expiresByZone["America/New_York"].kind = "clock"
    /\ expiresByZone["America/Chicago"].kind = "zoned"

\* C22: in every reachable state an interval callback is scheduled
\* (tickHandle non-null) exactly when running = true.
C22_TickerIffRunning == (tickHandle # NULL) <=> running

\* the end times startUntil is tried with: before, at and after the clock
C22_Ends(t) == {t - MsPerMinute, t, t + MsPerMinute}

\* C22 amended: while the component is mounted an interval callback is
\* scheduled (tickHandle non-null, one registration) exactly when
\* running = true; start() and startUntil() return with both, also when the
\* synchronous first update() of startUntil() saw endTime - now <= 0; once
\* onBeforeUnmount has run nothing is scheduled, whatever running is.
C22_MountedTickerIffRunning ==
    /\ mounted => ((tickHandle # NULL) <=> running)
    /\ (tickHandle # NULL) <=> (intervals # {})
    /\ ~mounted => tickHandle = NULL
    /\ \A m \in options :
          LET r == start(variant, S, m, now)
          IN  r.running /\ r.tickHandle # NULL
    /\ variant = "precise" =>
          \A e \in C22_Ends(now) :
              LET r == startUntil(variant, S, e, now)
              IN  r.running /\ r.tickHandle # NULL

\* a run was started towards an exact end that had already passed: its
\* first update saw no time left, and it is running with its ticker set
C22_Witness ==
    /\ mounted
    /\ variant = "precise"
    /\ lastOp.op = "confirmStart"
    /\ lastOp.pendE
    /\ endTime # NULL
    /\ endTime <= startTime
    /\ remainingMs <= 0
    /\ running
    /\ tickHandle # NULL

\* C23: the only interval registered is the one of the run started last
\* (its closure holds the current endTime), and every tick computes
\* remainingMs and running from the current endTime: endTime - now, clamped
\* at 0 and stopping at 0 in the auto-stop component, never from the end of
\* a run that was replaced.
C23_TicksUseCurrentEnd ==
    [][/\ \A iv \in intervals' : iv.end = endTime'
       /\ HandlerStep("tick") =>
             /\ endTime' = endTime
             /\ variant = "autostop" =>
                   /\ remainingMs' = Max(0, endTime - now)
                   /\ running' = (endTime - now > 0)
             /\ variant # "autostop" =>
                   /\ remainingMs' = endTime - now
                   /\ running' = running]_vars

\* a run was replaced by one with another end, and a tick has fired since
C23_Witness ==
    /\ lastOp.op = "tick"
    /\ lastOp.arg = 1
    /\ running
    /\ startTime > StartNow
    /\ remainingMs = endTime - now
    /\ remainingMs > 0

\* the run: the fields of a state that start, cancel and the ticker write
C24_RunOf(s) ==
    <<s.running, s.startTime, s.endTime, s.remainingMs, s.tickHandle, s.intervals>>

\* the selection handlers of the mounted component applied to state s
C24_Selections(s) ==
    { choosePreset(variant, s, m) : m \in options }
        \cup { startCustom(variant, s, now), cancelPending(variant, s) }
        \cup (IF variant = "precise"
              THEN { previewPreciseEnd(s), shortcutHalfPast(s, now),
                     shortcutEndOfHour(s, now), shortcutNextHour(s, now),
                     shortcutNoon(s, now), shortcutEndOfDay(s, now) }
              ELSE {})

\* C24 as stated: in the confirm-step components a step that changes
\* running, startTime, endTime, remainingMs or the scheduled ticker is a
\* confirmStart, a cancel or a tick.
C24_OnlyRunHandlersChangeRun ==
    [][(variant # "autostop" /\ C24_RunOf(StateAfter) # C24_RunOf(S)) =>
          \/ HandlerStep("confirmStart")
          \/ HandlerStep("cancel")
          \/ HandlerStep("tick")]_vars

\* C24: in the confirm-step components choosePreset, startCustom,
\* previewPreciseEnd, the shortcuts and cancelPending change none of running,
\* startTime, endTime, remainingMs and the scheduled ticker, in whatever
\* state they are called; a step that changes one of them is a
\* confirmStart, a cancel, a tick or the teardown hook, and the teardown
\* hook changes the scheduled ticker only.
C24_SelectionLeavesRun ==
    [][variant # "autostop" =>
          /\ \A r \in C24_Selections(S) : C24_RunOf(r) = C24_RunOf(S)
          /\ C24_RunOf(StateAfter) # C24_RunOf(S) =>
                \/ HandlerStep("confirmStart")
                \/ HandlerStep("cancel")
                \/ HandlerStep("tick")
                \/ HandlerStep("unmount")
          /\ HandlerStep("unmount") =>
                /\ running' = running
                /\ startTime' = startTime
                /\ endTime' = endTime
                /\ remainingMs' = remainingMs]_vars

\* a selection was made and withdrawn during a run, and the run goes on
C24_Witness ==
    /\ variant = "pending"
    /\ lastOp.op = "cancelPending"
    /\ lastOp.live
    /\ lastOp.pendM
    /\ running
    /\ tickHandle # NULL
    /\ pendingMinutes = NULL

\* C25: once the onBeforeUnmount hook has run, in whatever state, no
\* interval callback is scheduled, no tick happens, and remainingMs and
\* running never change again.
C25_TeardownStopsTicker ==
    [][/\ ~mounted' => (intervals' = {} /\ tickHandle' = NULL)
       /\ ~mounted =>
             /\ ~HandlerStep("tick")
             /\ remainingMs' = remainingMs
             /\ running' = running]_vars

\* a run was torn down with its ticker live; it is overdue now and the
\* remainder shown is the one of the last tick before teardown
C25_Witness ==
    /\ ~mounted
    /\ lastOp.op = "unmount"
    /\ lastOp.live
    /\ running
    /\ now > endTime
    /\ remainingMs > 0
    /\ intervals = {}

\* the multiples of `step` strictly between the instants t and u
C26_Between(t, u, step) ==
    {w * step : w \in (FloorDiv(t, step) + 1)..(FloorDiv(u - 1, step))}

\* u is the first instant after t at which the local wall clock is `phase`
\* ms into a period of `period` ms; the wall clock reaches such a reading
\* only at multiples of `step`
C26_IsNext(u, t, phase, period, step) ==
    /\ u > t
    /\ LocalTime(u) % period = phase
    /\ \A w \in C26_Between(t, u, step) : LocalTime(w) % period # phase

\* the instant each local shortcut computes at instant t
C26_Targets(t) ==
    [shortcutHalfPast |-> halfPastTarget(t), shortcutEndOfHour |-> endOfHourTarget(t),
     shortcutNextHour |-> nextHourTarget(t), shortcutNoon |-> noonTarget(t)]

\* C26: at every local time the instant a local shortcut computes is the
\* next hh:30:00.000, hh:59:00.000, hh:00:00.000 and 12:00:00.000 of the
\* local wall clock respectively, strictly after now; the shortcut stores
\* it as the pending exact end and clears pendingMinutes.
C26_LocalShortcuts ==
    /\ C26_IsNext(halfPastTarget(now), now, 30 * MsPerMinute, MsPerHour, MsPerMinute)
    /\ C26_IsNext(endOfHourTarget(now), now, 59 * MsPerMinute, MsPerHour, MsPerMinute)
    /\ C26_IsNext(nextHourTarget(now), now, 0, MsPerHour, MsPerMinute)
    /\ C26_IsNext(noonTarget(now), now, 12 * MsPerHour, MsPerDay, MsPerHour)
    /\ lastOp.op \in DOMAIN C26_Targets(now) =>
          /\ pendingExactEnd = C26_Targets(now)[lastOp.op]
          /\ pendingMinutes = NULL

\* reading a rendered countdown back: the value of a digit, of a run of
\* digits, and the parts of [-]M..M:SS
C27_DigitValue(c) == CHOOSE d \in 0..9 : DigitChars[d + 1] = c

C27_IsDigits(str) == \A i \in 1..Len(str) : \E d \in 0..9 : DigitChars[d + 1] = str[i]

RECURSIVE C27_Number(_)
C27_Number(str) ==
    IF Len(str) = 0 THEN 0
    ELSE 10 * C27_Number(SubSeq(str, 1, Len(str) - 1)) + C27_DigitValue(str[Len(str)])

C27_Parse(str) ==
    LET signed == Len(str) > 0 /\ str[1] = "-"
        body == IF signed THEN Tail(str) ELSE str
        n == Len(body)
        wellFormed == /\ n >= 5
                      /\ body[n - 2] = ":"
                      /\ C27_IsDigits(SubSeq(body, 1, n - 3))
                      /\ C27_IsDigits(SubSeq(body, n - 1, n))
    IN  [ok |-> wellFormed,
         signed |-> signed,
         minutes |-> IF wellFormed THEN C27_Number(SubSeq(body, 1, n - 3)) ELSE 0,
         seconds |-> IF wellFormed THEN C27_Number(SubSeq(body, n - 1, n)) ELSE 0]

\* the remainders a countdown is rendered for: the one stored, its
\* opposite, and the exact distance to the end of the run
C27_Remainders ==
    {remainingMs, -remainingMs} \cup (IF endTime # NULL THEN {endTime - now} ELSE {})

\* C27: the countdown string is [-]MM:SS (at least two minute digits, two
\* second digits) with seconds in 0..59; in the auto-stop component it has
\* no sign and minutes * 60 + seconds = floor(max(0, ms) / 1000); in the
\* overdue components it starts with '-' exactly when ms < 0 and
\* minutes * 60 + seconds = floor(|ms| / 1000).
C27_CountdownDecomposes ==
    \A ms \in C27_Remainders :
        LET p == C27_Parse(countdown(variant, ms))
        IN  /\ p.ok
            /\ p.seconds \in 0..59
            /\ variant = "autostop" =>
                  /\ ~p.signed
                  /\ p.minutes * 60 + p.seconds = FloorDiv(Max(0, ms), MsPerSecond)
            /\ variant # "autostop" =>
                  /\ p.signed <=> ms < 0
                  /\ p.minutes * 60 + p.seconds = FloorDiv(Abs(ms), MsPerSecond)

\* an overdue run whose tick came less than a second after its end shows -00:00
C27_Witness ==
    /\ variant # "autostop"
    /\ running
    /\ lastOp.op = "tick"
    /\ remainingMs < 0
    /\ remainingMs > -MsPerSecond
    /\ countdown(variant, remainingMs) = <<"-", "0", "0", ":", "0", "0">>

============================================================================
